---- MODULE Spec2Model ----
(***************************************************************************)
(* Course registry: course_registry_create_course and generate_course_id   *)
(* (contracts/course/course_registry/src/functions/create_course.rs) over  *)
(* the persistent key-value store of the host.                             *)
(*                                                                         *)
(* Strings are sequences of one-character strings.  An Option is the tuple *)
(* <<"None">> or <<"Some", v>>.  A storage key is a tuple: <<symbol>> for  *)
(* a bare Symbol key, <<symbol, string>> for a (Symbol, String) pair.      *)
(***************************************************************************)
EXTENDS Integers, Sequences, FiniteSets, TLC

VARIABLES store,        \* committed persistent storage: key -> value
          preStore,     \* storage as it was when the last call began
          lastArgs,     \* arguments and invoker of the last call
          lastOutcome,  \* how the last call ended ("None" before any call)
          lastReturned, \* Option<Course>: the value the last call returned
          lastWrites,   \* keys the last call passed to set(), in order
          returnedIds,  \* ids returned by the successful calls, in call order
          genCalls      \* number of direct calls of generate_course_id

vars == <<store, preStore, lastArgs, lastOutcome, lastReturned, lastWrites, returnedIds,
          genCalls>>

\* ---------------------------------------------------------------- bounds
MaxCourses == 3

\* ------------------------------------------------------------- constants
COURSE_KEY == "course"
TITLE_KEY == "title"
COURSE_ID == "course"

MsgEmptyTitle == "Course error: Course Title cannot be empty"
MsgNonPositivePrice == "Course error: Price must be greater than 0"
MsgDuplicateTitle == "Course error: Course Title already exists"
MsgIdExists == "Course with this ID already exists"

None == <<"None">>
Some(v) == <<"Some", v>>

\* ------------------------------------------------------------ u128 values
\* A u128 price is kept at its full width as eight 16-bit limbs, least
\* significant first.
U128_LIMBS == 8
LIMB_BASE == 65536

\* the u128 whose value is n, for n below LIMB_BASE
u128_of(n) == [i \in 1..U128_LIMBS |-> IF i = 1 THEN n ELSE 0]

U128_ZERO == u128_of(0)

\* u128::MAX = 2^128 - 1
U128_MAX == [i \in 1..U128_LIMBS |-> LIMB_BASE - 1]

\* ------------------------------------------------------- string helpers
IsWhitespace(c) == c \in {" ", "\t"}

RECURSIVE trim_start(_)
trim_start(s) ==
    IF s = <<>> THEN <<>>
    ELSE IF IsWhitespace(Head(s)) THEN trim_start(Tail(s))
    ELSE s

RECURSIVE trim_end(_)
trim_end(s) ==
    IF s = <<>> THEN <<>>
    ELSE IF IsWhitespace(s[Len(s)]) THEN trim_end(SubSeq(s, 1, Len(s) - 1))
    ELSE s

trim(s) == trim_end(trim_start(s))

is_empty(s) == Len(s) = 0

\* char::to_lowercase on the characters of the alphabet
LowerChar(c) ==
    CASE c = "A" -> "a"
      [] c = "Á" -> "á"
      [] OTHER -> c

to_lowercase(s) == [i \in 1..Len(s) |-> LowerChar(s[i])]

\* soroban String -> Rust String and back: a copy of the characters
to_string(s) == [i \in 1..Len(s) |-> s[i]]
from_str(s) == [i \in 1..Len(s) |-> s[i]]

Digit(d) ==
    CASE d = 0 -> "0" [] d = 1 -> "1" [] d = 2 -> "2" [] d = 3 -> "3"
      [] d = 4 -> "4" [] d = 5 -> "5" [] d = 6 -> "6" [] d = 7 -> "7"
      [] d = 8 -> "8" [] d = 9 -> "9"

\* u128::to_string: decimal digits, most significant first, no leading zero
RECURSIVE u128_to_string(_)
u128_to_string(n) ==
    IF n < 10 THEN <<Digit(n)>>
    ELSE Append(u128_to_string(n \div 10), Digit(n % 10))

\* ------------------------------------------------------------- storage
\* A working storage is [map |-> key -> value, writes |-> keys set so far].
has(st, key) == key \in DOMAIN st.map

get(st, key) == IF key \in DOMAIN st.map THEN Some(st.map[key]) ELSE None

set(st, key, value) ==
    [map |-> [k \in DOMAIN st.map \cup {key} |->
                 IF k = key THEN value ELSE st.map[k]],
     writes |-> Append(st.writes, key)]

unwrap_or(opt, default) == IF opt[1] = "Some" THEN opt[2] ELSE default

\* panic!(msg): the call traps; st is the working storage at that point
panic(msg, st) ==
    [panicked |-> TRUE, msg |-> msg, ret |-> None, st |-> st]

current_contract_address(env) == env.contract

\* ----------------------------------------------------- generate_course_id
generate_course_id_from_one(st) ==
    LET current_id == unwrap_or(get(st, <<COURSE_ID>>), 1)
        new_id == current_id + 1
    IN  [id |-> new_id, st |-> set(st, <<COURSE_ID>>, new_id)]

generate_course_id_no_write(st) ==
    LET current_id == unwrap_or(get(st, <<COURSE_ID>>), 0)
        new_id == current_id + 1
    IN  [id |-> new_id, st |-> st]

\* The counter stays below MaxCourses, far from u128::MAX, so the addition
\* never overflows here.
generate_course_id(st) ==
    LET current_id == unwrap_or(get(st, <<COURSE_ID>>), 0)
        new_id == current_id + 1
    IN  [id |-> new_id, st |-> set(st, <<COURSE_ID>>, new_id)]

\* ------------------------------------------ course_registry_create_course
title_is_blank_untrimmed(title) == is_empty(title)

\* title.is_empty() || trimmed_title.is_empty()
title_is_blank(title) ==
    LET title_string == to_string(title)
        trimmed_title == trim(title_string)
    IN  is_empty(title) \/ is_empty(trimmed_title)

price_is_rejected_never(price) == FALSE

\* price == 0
price_is_rejected(price) == price = U128_ZERO

title_key_exact(title) == <<TITLE_KEY, from_str(to_string(title))>>

title_key_trimmed(title) ==
    <<TITLE_KEY, from_str(to_lowercase(trim(to_string(title))))>>

\* (TITLE_KEY, lower-cased title)
title_key_of(title) == <<TITLE_KEY, from_str(to_lowercase(to_string(title)))>>

title_taken_never(st, title_key) == FALSE

\* env.storage().persistent().has(&title_key)
title_taken(st, title_key) == has(st, title_key)

storage_key_title_tag(converted_id) == <<TITLE_KEY, converted_id>>

\* (COURSE_KEY, id as decimal string)
storage_key_of(converted_id) == <<COURSE_KEY, converted_id>>

save_record_only(st, storage_key, new_course, title_key) ==
    set(st, storage_key, new_course)

\* the two writes that save the course and mark its title as taken
save(st, storage_key, new_course, title_key) ==
    set(set(st, storage_key, new_course), title_key, TRUE)

\* an omitted language replaced by "en"
new_course_default_language(converted_id, title, description, caller, price, category, language, thumbnail_url) ==
    [id |-> converted_id,
     title |-> title,
     description |-> description,
     creator |-> caller,
     price |-> price,
     category |-> category,
     language |-> IF language = None THEN Some(<<"e", "n">>) ELSE language,
     thumbnail_url |-> thumbnail_url,
     published |-> FALSE]

\* price narrowed to 64 bits on the way into the record
new_course_truncating_price(converted_id, title, description, caller, price, category, language, thumbnail_url) ==
    [id |-> converted_id,
     title |-> title,
     description |-> description,
     creator |-> caller,
     price |-> [i \in 1..U128_LIMBS |-> IF i <= 4 THEN price[i] ELSE 0],
     category |-> category,
     language |-> language,
     thumbnail_url |-> thumbnail_url,
     published |-> FALSE]

\* Course { id, title, description, creator, price, category, language,
\*          thumbnail_url, published: false }
new_course_of(converted_id, title, description, caller, price, category, language, thumbnail_url) ==
    [id |-> converted_id,
     title |-> title,
     description |-> description,
     creator |-> caller,
     price |-> price,
     category |-> category,
     language |-> language,
     thumbnail_url |-> thumbnail_url,
     published |-> FALSE]

\* the id allocated before the three validations
course_registry_create_course_id_first(env, st, title, description, price, category, language, thumbnail_url) ==
    LET caller == current_contract_address(env)
        g == generate_course_id(st)
        id == g.id
        converted_id == from_str(u128_to_string(id))
        storage_key == storage_key_of(converted_id)
    IN
    IF title_is_blank(title)
    THEN panic(MsgEmptyTitle, g.st)
    ELSE IF price_is_rejected(price)
    THEN panic(MsgNonPositivePrice, g.st)
    ELSE
    LET title_key == title_key_of(title) IN
    IF title_taken(g.st, title_key)
    THEN panic(MsgDuplicateTitle, g.st)
    ELSE IF has(g.st, storage_key)
    THEN panic(MsgIdExists, g.st)
    ELSE
    LET new_course == new_course_of(converted_id, title, description, caller,
                                    price, category, language, thumbnail_url)
    IN  [panicked |-> FALSE, msg |-> "Ok", ret |-> Some(new_course),
         st |-> save(g.st, storage_key, new_course, title_key)]

course_registry_create_course(env, st, title, description, price, category, language, thumbnail_url) ==
    LET caller == current_contract_address(env) IN
    IF title_is_blank(title)
    THEN panic(MsgEmptyTitle, st)
    ELSE IF price_is_rejected(price)
    THEN panic(MsgNonPositivePrice, st)
    ELSE
    LET title_key == title_key_of(title) IN
    IF title_taken(st, title_key)
    THEN panic(MsgDuplicateTitle, st)
    ELSE
    LET g == generate_course_id(st)
        id == g.id
        converted_id == from_str(u128_to_string(id))
        storage_key == storage_key_of(converted_id)
    IN
    IF has(g.st, storage_key)
    THEN panic(MsgIdExists, g.st)
    ELSE
    LET new_course == new_course_of(converted_id, title, description, caller,
                                    price, category, language, thumbnail_url)
    IN  [panicked |-> FALSE, msg |-> "Ok", ret |-> Some(new_course),
         st |-> save(g.st, storage_key, new_course, title_key)]

\* ------------------------------------------------------------- inputs
ContractAddress == "CONTRACT"

\* blank titles, a case pair, a leading-space variant, an accented variant
\* and a title that reads as a decimal number
Titles == { <<>>, <<" ", "\t">>,
            <<"a">>, <<"A">>, <<" ", "a">>, <<"á">>, <<"1">> }

\* invoker, description, price and the three optional fields of a call
Rests == { <<"ALICE", <<>>, u128_of(1), None, None, None>>,
           <<"BOB", <<"d">>, u128_of(2), Some(<<"c">>), None, None>>,
           <<"ALICE", <<"d">>, U128_MAX, Some(<<>>), Some(<<>>), Some(<<"u">>)>>,
           <<"BOB", <<"d">>, U128_ZERO, None, Some(<<"l">>), None>> }

NoArgs == [invoker |-> "", title |-> <<>>, description |-> <<>>, price |-> U128_ZERO,
           category |-> None, language |-> None, thumbnail_url |-> None]

\* ------------------------------------------------------------- the machine
Counter(m) == IF <<COURSE_ID>> \in DOMAIN m THEN m[<<COURSE_ID>>] ELSE 0

Init ==
    /\ store = <<>>
    /\ preStore = <<>>
    /\ lastArgs = NoArgs
    /\ lastOutcome = "None"
    /\ lastReturned = None
    /\ lastWrites = <<>>
    /\ returnedIds = <<>>
    /\ genCalls = 0

\* One invocation of create_course.  The host runs it to completion and
\* commits its writes, or discards all of them when the call panics.
CreateCourse(invoker, title, description, price, category, language, thumbnail_url) ==
    LET env == [contract |-> ContractAddress, invoker |-> invoker]
        r == course_registry_create_course(env, [map |-> store, writes |-> <<>>],
                 title, description, price, category, language, thumbnail_url)
    IN  /\ r.panicked \/ Counter(store) < MaxCourses
        /\ store' = IF r.panicked THEN store ELSE r.st.map
        /\ preStore' = store
        /\ lastArgs' = [invoker |-> invoker, title |-> title,
                        description |-> description, price |-> price,
                        category |-> category, language |-> language,
                        thumbnail_url |-> thumbnail_url]
        /\ lastOutcome' = r.msg
        /\ lastReturned' = r.ret
        /\ lastWrites' = r.st.writes
        /\ returnedIds' = IF r.panicked THEN returnedIds
                          ELSE Append(returnedIds, r.ret[2].id)
        /\ UNCHANGED genCalls

Next ==
    \E title \in Titles, rest \in Rests :
        CreateCourse(rest[1], title, rest[2], rest[3], rest[4], rest[5], rest[6])

Spec == Init /\ [][Next]_vars

\* One direct call of generate_course_id inside the contract's execution
\* context, as test_generate_course_id makes it.
GenerateId ==
    LET g == generate_course_id([map |-> store, writes |-> <<>>])
    IN  /\ Counter(store) < MaxCourses
        /\ store' = g.st.map
        /\ preStore' = store
        /\ lastArgs' = NoArgs
        /\ lastOutcome' = "Generated"
        /\ lastReturned' = Some(g.id)
        /\ lastWrites' = g.st.writes
        /\ genCalls' = genCalls + 1
        /\ UNCHANGED returnedIds

NextGen == Next \/ GenerateId

\* create_course calls and direct generate_course_id calls in any order
SpecGen == Init /\ [][NextGen]_vars


\* ------------------------------------------------------- reading a store
CourseKeys(m) == {k \in DOMAIN m : Len(k) = 2 /\ k[1] = COURSE_KEY}
TitleKeys(m) == {k \in DOMAIN m : Len(k) = 2 /\ k[1] = TITLE_KEY}
StoredCourses(m) == {m[k] : k \in CourseKeys(m)}

\* decimal numeral of a number below 100, written out digit by digit
Numeral(n) == IF n < 10 THEN <<Digit(n)>> ELSE <<Digit(n \div 10), Digit(n % 10)>>

Blank(s) == \A i \in 1..Len(s) : IsWhitespace(s[i])

CasePairs == { {"a", "A"}, {"á", "Á"} }

\* s and t are the same text up to the case of their letters
SameUpToCase(s, t) ==
    /\ Len(s) = Len(t)
    /\ \A i \in 1..Len(s) : s[i] = t[i] \/ {s[i], t[i]} \in CasePairs

Called == lastOutcome # "None"
Succeeded == lastOutcome = "Ok"
Returned == lastReturned[2]

\* the last call met a store in which a course already held its title
TitleWasUsed ==
    \E c \in StoredCourses(preStore) : SameUpToCase(c.title, lastArgs.title)

\* C1: the successful calls receive the ids "1", "2", ..., "N" in call
\* order, whatever failing calls came in between.
C1_SequentialIds ==
    \A i \in 1..Len(returnedIds) : returnedIds[i] = Numeral(i)

C1_Witness ==
    /\ Len(returnedIds) >= 2
    /\ lastOutcome \in {MsgEmptyTitle, MsgNonPositivePrice, MsgDuplicateTitle}

\* C2: no two stored courses have titles that are equal after lower-casing.
C2_TitlesUniqueIgnoringCase ==
    \A k1, k2 \in CourseKeys(store) :
        k1 # k2 => to_lowercase(store[k1].title) # to_lowercase(store[k2].title)

C2_Witness ==
    /\ Cardinality(CourseKeys(store)) >= 2
    /\ \E c \in StoredCourses(store) : to_lowercase(c.title) # c.title

\* C3: once a course with title T exists, a call with a non-blank title
\* that is T up to letter case and a positive price fails with
\* "Course Title already exists".
C3_DuplicateTitleRejected ==
    (Called /\ ~Blank(lastArgs.title) /\ lastArgs.price # U128_ZERO /\ TitleWasUsed)
        => lastOutcome = MsgDuplicateTitle

C3_Witness ==
    /\ lastOutcome = MsgDuplicateTitle
    /\ \E c \in StoredCourses(preStore) :
           c.title # lastArgs.title /\ SameUpToCase(c.title, lastArgs.title)

\* the last call's input was valid for the store it met
ValidInput ==
    /\ Called
    /\ ~Blank(lastArgs.title)
    /\ lastArgs.price # U128_ZERO
    /\ <<TITLE_KEY, to_lowercase(lastArgs.title)>> \notin DOMAIN preStore

\* C4: a call with valid input succeeds, returns the id that is the decimal
\* string of the counter before the call plus one, and leaves the counter at
\* that value.
C4_ValidInputSucceeds ==
    ValidInput =>
        /\ Succeeded
        /\ Returned.id = Numeral(Counter(preStore) + 1)
        /\ Counter(store) = Counter(preStore) + 1

C4_Witness ==
    ValidInput /\ Succeeded /\ Counter(preStore) >= 1

\* C5: a call with an empty or whitespace-only title fails with "Course
\* Title cannot be empty" for any price, and the counter keeps its value.
C5_BlankTitleRejected ==
    (Called /\ Blank(lastArgs.title)) =>
        /\ lastOutcome = MsgEmptyTitle
        /\ Counter(store) = Counter(preStore)

C5_Witness ==
    /\ lastOutcome = MsgEmptyTitle
    /\ Len(lastArgs.title) > 0
    /\ lastArgs.price # U128_ZERO
    /\ Counter(preStore) >= 1

\* C6: a call with a non-blank title and price 0 fails with "Price must be
\* greater than 0", and the counter keeps its value.
C6_ZeroPriceRejected ==
    (Called /\ ~Blank(lastArgs.title) /\ lastArgs.price = U128_ZERO) =>
        /\ lastOutcome = MsgNonPositivePrice
        /\ Counter(store) = Counter(preStore)

C6_Witness ==
    /\ lastOutcome = MsgNonPositivePrice
    /\ TitleWasUsed
    /\ Counter(preStore) >= 1

\* C7: a call that meets its title already taken (and so fails with "Course
\* Title already exists") leaves the store as it was: same keys, same
\* counter, same records, same markers.
C7_DuplicateLeavesStoreUnchanged ==
    (lastOutcome = MsgDuplicateTitle
       \/ (Called /\ ~Blank(lastArgs.title) /\ lastArgs.price # U128_ZERO /\ TitleWasUsed))
        => /\ DOMAIN store = DOMAIN preStore
           /\ \A k \in DOMAIN store : store[k] = preStore[k]

C7_Witness ==
    /\ lastOutcome = MsgDuplicateTitle
    /\ \E c \in StoredCourses(store) :
           /\ SameUpToCase(c.title, lastArgs.title)
           /\ c.description # lastArgs.description

\* C8: after a successful call the store holds, under ("course", returned
\* id), a course equal field for field to the returned one.
C8_RoundTrip ==
    Succeeded =>
        /\ <<COURSE_KEY, Returned.id>> \in DOMAIN store
        /\ LET c == store[<<COURSE_KEY, Returned.id>>] IN
            /\ c.id = Returned.id
            /\ c.title = Returned.title
            /\ c.description = Returned.description
            /\ c.creator = Returned.creator
            /\ c.price = Returned.price
            /\ c.category = Returned.category
            /\ c.language = Returned.language
            /\ c.thumbnail_url = Returned.thumbnail_url
            /\ c.published = Returned.published

C8_Witness ==
    /\ Succeeded
    /\ Returned.id = Numeral(2)
    /\ Returned.language # None

\* C9: between calls, the store holds exactly one record per id 1..counter
\* and exactly the title markers of those records.
C9_AllOrNothing ==
    /\ \A k \in 1..Counter(store) :
          /\ <<COURSE_KEY, Numeral(k)>> \in DOMAIN store
          /\ <<TITLE_KEY, to_lowercase(store[<<COURSE_KEY, Numeral(k)>>].title)>>
                 \in DOMAIN store
    /\ Cardinality(CourseKeys(store)) = Counter(store)
    /\ Cardinality(TitleKeys(store)) = Counter(store)

C9_Witness ==
    /\ Counter(store) >= 2
    /\ Called /\ ~Succeeded

\* C10: the creator of the created course is the principal that invoked
\* the call.
C10_CreatorIsInvoker ==
    Succeeded => Returned.creator = lastArgs.invoker

\* what the code does: the creator is the contract's own address
C10_CreatorIsContract ==
    Succeeded => Returned.creator = ContractAddress


Stored == store[<<COURSE_KEY, Returned.id>>]

OnlyCategorySupplied ==
    /\ Succeeded
    /\ lastArgs.category # None
    /\ lastArgs.language = None
    /\ lastArgs.thumbnail_url = None

\* C12: with category supplied and language and thumbnail_url omitted, the
\* returned course has language Some("en"), no thumbnail_url and the
\* supplied category.
C12_LanguageDefaultsToEn ==
    OnlyCategorySupplied =>
        /\ Returned.language = Some(<<"e", "n">>)
        /\ Returned.thumbnail_url = None
        /\ Returned.category = lastArgs.category

\* what the code does: the omitted language stays absent
C12_LanguageStaysAbsent ==
    OnlyCategorySupplied => Returned.language = None

\* C13: every stored course has price > 0, a title that is not blank, and
\* published = false.
C13_StoredCoursesValid ==
    \A c \in StoredCourses(store) :
        /\ c.price # U128_ZERO
        /\ ~Blank(c.title)
        /\ c.published = FALSE

C13_Witness ==
    /\ Cardinality(StoredCourses(store)) >= 2
    /\ \E c \in StoredCourses(store) : c.title # trim(c.title)

\* C14: a call leaves every record and marker that existed before it in
\* place and unchanged; a successful call adds exactly one record and one
\* marker and raises the counter by one.
C14_Frame ==
    Called =>
        /\ \A k \in CourseKeys(preStore) \cup TitleKeys(preStore) :
              k \in DOMAIN store /\ store[k] = preStore[k]
        /\ Succeeded =>
              /\ Cardinality(CourseKeys(store) \ CourseKeys(preStore)) = 1
              /\ Cardinality(TitleKeys(store) \ TitleKeys(preStore)) = 1
              /\ Counter(store) = Counter(preStore) + 1

C14_Witness ==
    /\ Succeeded
    /\ Cardinality(CourseKeys(preStore)) >= 1
    /\ Cardinality(CourseKeys(store)) = Cardinality(CourseKeys(preStore)) + 1

\* C15: a call with price u128::MAX, a non-blank title and an unused title
\* succeeds, and the returned and the stored course have exactly that price.
C15_MaxPriceStoredExactly ==
    (ValidInput /\ lastArgs.price = U128_MAX) =>
        /\ Succeeded
        /\ Returned.price = U128_MAX
        /\ Stored.price = U128_MAX

C15_Witness ==
    /\ Succeeded
    /\ lastArgs.price = U128_MAX
    /\ \A i \in 1..U128_LIMBS : Stored.price[i] = LIMB_BASE - 1

ValidationFailures == {MsgEmptyTitle, MsgNonPositivePrice, MsgDuplicateTitle}

\* C16: the title is checked first, then the price, then the duplicate
\* title, and a call that fails one of the three has issued no write.
C16_ChecksBeforeWrites ==
    Called =>
        /\ Blank(lastArgs.title) => lastOutcome = MsgEmptyTitle
        /\ (~Blank(lastArgs.title) /\ lastArgs.price = U128_ZERO)
              => lastOutcome = MsgNonPositivePrice
        /\ lastOutcome \in ValidationFailures => lastWrites = <<>>

C16_Witness ==
    /\ lastOutcome = MsgEmptyTitle
    /\ lastArgs.price = U128_ZERO
    /\ lastWrites = <<>>
    /\ Counter(store) >= 1

\* s and t have the same characters once each is lower-cased
LowerEqual(s, t) ==
    /\ Len(s) = Len(t)
    /\ \A i \in 1..Len(s) : LowerChar(s[i]) = LowerChar(t[i])

\* C18: a call fails as a duplicate only when its lower-cased title is
\* character for character the lower-cased title of a stored course; titles
\* that differ in whitespace or accents are accepted, and a title is stored
\* as supplied, untrimmed.
C18_CaseFoldingOnly ==
    /\ lastOutcome = MsgDuplicateTitle
          => \E c \in StoredCourses(preStore) : LowerEqual(c.title, lastArgs.title)
    /\ (Called /\ ~Blank(lastArgs.title) /\ lastArgs.price # U128_ZERO
          /\ ~\E c \in StoredCourses(preStore) : LowerEqual(c.title, lastArgs.title))
          => Succeeded
    /\ Succeeded => Returned.title = lastArgs.title /\ Stored.title = lastArgs.title

C18_Witness ==
    /\ Succeeded
    /\ lastArgs.title # trim(lastArgs.title)
    /\ \E c \in StoredCourses(preStore) : c.title = trim(lastArgs.title)
    /\ \E c \in StoredCourses(preStore) : c.title = <<"á">>

\* C19: the counter key, the record keys and the marker keys are three
\* disjoint families: a successful call writes three different keys, one of
\* each family, and the store holds nothing else.
C19_KeyFamiliesDisjoint ==
    /\ CourseKeys(store) \cap TitleKeys(store) = {}
    /\ <<COURSE_ID>> \notin CourseKeys(store) \cup TitleKeys(store)
    /\ DOMAIN store \subseteq {<<COURSE_ID>>} \cup CourseKeys(store) \cup TitleKeys(store)
    /\ Succeeded =>
          /\ Len(lastWrites) = 3
          /\ lastWrites[1] = <<COURSE_ID>>
          /\ lastWrites[2] \in CourseKeys(store) \ CourseKeys(preStore)
          /\ lastWrites[3] \in TitleKeys(store) \ TitleKeys(preStore)
          /\ Cardinality({lastWrites[1], lastWrites[2], lastWrites[3]}) = 3
          /\ Counter(store) = Counter(preStore) + 1

C19_Witness ==
    /\ Succeeded
    /\ <<COURSE_KEY, <<"1">>>> \in DOMAIN store
    /\ <<TITLE_KEY, <<"1">>>> \in DOMAIN store
    /\ store[<<COURSE_KEY, <<"1">>>>].title # <<"1">>


\* C17: generate_course_id reads the counter (0 when absent), writes counter
\* + 1 under the same key and returns it, so no increment is lost: the
\* counter equals the number of ids handed out, and on a store that saw no
\* create_course the k-th call returns k.
C17_GenerateIdCounts ==
    /\ lastOutcome = "Generated" =>
          /\ lastReturned = Some(Counter(preStore) + 1)
          /\ Counter(store) = Counter(preStore) + 1
          /\ lastWrites = << <<COURSE_ID>> >>
          /\ Len(returnedIds) = 0 => lastReturned = Some(genCalls)
    /\ Counter(store) = genCalls + Len(returnedIds)

C17_Witness ==
    /\ lastOutcome = "Generated"
    /\ Len(returnedIds) = 0
    /\ genCalls = 2
    /\ lastReturned = Some(2)

\* C20: the record key of the next id to be allocated is always free, so
\* no call ends in "Course with this ID already exists".
C20_FreshIdKeyFree ==
    /\ <<COURSE_KEY, Numeral(Counter(store) + 1)>> \notin DOMAIN store
    /\ \A k \in CourseKeys(store) : \E n \in 1..Counter(store) : k[2] = Numeral(n)
    /\ lastOutcome # MsgIdExists

C20_Witness ==
    /\ Succeeded
    /\ genCalls >= 1
    /\ Cardinality(CourseKeys(preStore)) >= 1
    /\ Returned.id # Numeral(Cardinality(CourseKeys(store)))

====
